---- MODULE Spec2Model ----
(***************************************************************************)
(* Model of the Streamlit dashboard script src/app.py and of               *)
(* src/utilities.py.  One run of the script is a render cycle: load_data   *)
(* (memoised by st.cache_data with a one hour ttl), the People tab (filter *)
(* pass, column projection, CSV export), the Sessions tab (the same), and  *)
(* the footer with the "Clear cache" button.                               *)
(*                                                                         *)
(* A nullable cell is <<>> (SQL NULL, None, NaN, NaT) or <<v>>.  A string  *)
(* is a sequence of one-character strings.  A table is a sequence of rows; *)
(* each row carries idx, its label in the DataFrame's index.               *)
(*                                                                         *)
(* Widget values are inputs: each run picks them afresh.  A local that the *)
(* rest of the script no longer reads is put back to its unset value, so   *)
(* a state holds the locals of the part of the script that just ran.       *)
(*                                                                         *)
(* One browser session is modelled in full.  Its load_data call takes a    *)
(* step per blocking operation, and a rerun request or a click on the      *)
(* button a previous run left on the page may abandon the run between any  *)
(* two steps.  On a shared server other sessions clear the cache and run   *)
(* load_data themselves, a step per blocking operation too, at any point   *)
(* of this session's run; the warehouse's tables are refreshed and time    *)
(* passes at any point.                                                    *)
(***************************************************************************)
EXTENDS Integers, Sequences, FiniteSets, TLC

\* ---------------------------------------------------------------- bounds
MaxRows == 2

\* ------------------------------------------------------------ primitives
None == <<>>
Some(v) == <<v>>
IsNull(x) == x = <<>>
Val(x) == x[1]

\* A faulty variant of Truthy: `is not None` in place of truthiness.
TruthyIsNotNone(s) == TRUE

\* Python's truthiness of a str or a list: empty is falsy.
Truthy(s) == Len(s) > 0

\* df[mask]: boolean-mask indexing keeps, in order, the rows whose mask entry
\* is True; the mask is aligned with the frame it was computed from.
RECURSIVE BoolIndex(_, _)
BoolIndex(t, mask) ==
  IF t = <<>> THEN <<>>
  ELSE IF Head(mask) THEN <<Head(t)>> \o BoolIndex(Tail(t), Tail(mask))
       ELSE BoolIndex(Tail(t), Tail(mask))

\* A faulty variant of EqTrue: `!= False`, which a null cell satisfies.
EqTrueNotFalse(x) == x # Some(FALSE)

\* series == True / series == False: a null cell compares False either way.
EqTrue(x) == x = Some(TRUE)
EqFalse(x) == x = Some(FALSE)

\* series >= n: a null cell compares False.
GeScalar(x, n) == IF IsNull(x) THEN FALSE ELSE Val(x) >= n

\* series == value for a string column: a null cell compares False.
EqValue(x, v) == x = Some(v)

\* ------------------------------------------------------------- strings
sAb == <<"A", "b">>
saB == <<"a", "B">>
sadotb == <<"a", ".", "b">>
sb == <<"b">>
sdot == <<".">>
sUS == <<"U", "S">>
sCA == <<"C", "A">>
sAll == <<"A", "l", "l">>

sLparen == <<"(">>
sbDollar == <<"b", "$">>

UpperChars ==
  <<"A", "B", "C", "D", "E", "F", "G", "H", "I", "J", "K", "L", "M",
    "N", "O", "P", "Q", "R", "S", "T", "U", "V", "W", "X", "Y", "Z">>

LowerChars ==
  <<"a", "b", "c", "d", "e", "f", "g", "h", "i", "j", "k", "l", "m",
    "n", "o", "p", "q", "r", "s", "t", "u", "v", "w", "x", "y", "z">>

\* str.lower on one upper-case letter.
ToLower ==
  [c \in { UpperChars[i] : i \in 1..26 } |->
     LowerChars[CHOOSE i \in 1..26 : UpperChars[i] = c]]

\* re.IGNORECASE: a letter is compared by its lower-case form.
Lower(c) == IF c \in DOMAIN ToLower THEN ToLower[c] ELSE c

\* --------------------------------------------------- regular expressions
\* str.contains takes the search term as a regular expression.  The syntax
\* modelled: a literal character, ".", the anchors "^" and "$", the
\* quantifiers "*", "+" and "?" with their lazy ("?") and possessive ("+")
\* forms, "|" and groups in parentheses.
QuantChars == {"*", "+", "?"}

\* "(" minus ")" among pat[i..k-1].
ParenDepth(pat, i, k) ==
  Cardinality({ m \in i..(k - 1) : pat[m] = "(" })
    - Cardinality({ m \in i..(k - 1) : pat[m] = ")" })

\* re.compile raises re.error: a parenthesis without its partner, a
\* quantifier with nothing to repeat, or a repeat of a repeat.
RegexError(pat) ==
  \/ \E k \in 1..Len(pat) : ParenDepth(pat, 1, k + 1) < 0
  \/ ParenDepth(pat, 1, Len(pat) + 1) # 0
  \/ \E k \in 1..Len(pat) :
       /\ pat[k] \in QuantChars
       /\ \/ k = 1
          \/ pat[k - 1] \in {"(", "|", "^", "$"}
          \/ /\ pat[k - 1] \in QuantChars
             /\ \/ pat[k] = "*"
                \/ k >= 3 /\ pat[k - 2] \in QuantChars

\* The characters of the quantifier that follows the atom ending at e.
QuantLen(pat, e) ==
  IF e + 1 <= Len(pat) /\ pat[e + 1] \in QuantChars
  THEN (IF e + 2 <= Len(pat) /\ pat[e + 2] \in {"?", "+"} THEN 2 ELSE 1)
  ELSE 0

\* The ")" that closes the "(" at i.
MatchingParen(pat, i) ==
  LET ms == { m \in (i + 1)..Len(pat) :
                pat[m] = ")" /\ ParenDepth(pat, i + 1, m) = 0 }
  IN IF ms = {} THEN 0 ELSE CHOOSE m \in ms : \A x \in ms : m <= x

\* Character classes, escapes, counted repeats and "(?" extensions are
\* outside the syntax modelled, and so is a possessive quantifier on a
\* group that holds a group.
RegexModelled(pat) ==
  /\ \A k \in 1..Len(pat) :
       /\ pat[k] \notin {"[", "{", "\\"}
       /\ ~(pat[k] = "(" /\ k < Len(pat) /\ pat[k + 1] = "?")
  /\ ~\E o \in 1..Len(pat) :
        LET k == MatchingParen(pat, o)
        IN /\ pat[o] = "("
           /\ k # 0
           /\ k + 2 <= Len(pat)
           /\ pat[k + 1] \in QuantChars
           /\ pat[k + 2] = "+"
           /\ \E m \in (o + 1)..(k - 1) : pat[m] = "("

\* The first "|" of pat[i..j] outside any group, 0 if there is none.
FirstBar(pat, i, j) ==
  LET ks == { k \in i..j : pat[k] = "|" /\ ParenDepth(pat, i, k) = 0 }
  IN IF ks = {} THEN 0 ELSE CHOOSE k \in ks : \A x \in ks : k <= x

\* The matcher: the positions of s at which a match of pat[i..j] begun at
\* position p can end, in the order re's backtracking tries them.
RECURSIVE ReAlt(_, _, _, _, _)
RECURSIVE ReSeq(_, _, _, _, _)
RECURSIVE ReSeqFrom(_, _, _, _, _)
RECURSIVE ReItem(_, _, _, _, _)
RECURSIVE ReAtom(_, _, _, _, _)
RECURSIVE ReStar(_, _, _, _, _, _)
RECURSIVE ReStarFrom(_, _, _, _, _, _, _)

\* Alternatives, left to right.
ReAlt(s, pat, i, j, p) ==
  LET k == FirstBar(pat, i, j)
  IN IF k = 0 THEN ReSeq(s, pat, i, j, p)
     ELSE ReSeq(s, pat, i, k - 1, p) \o ReAlt(s, pat, k + 1, j, p)

\* "$" matches at the end and before a newline that ends the string.
AtEnd(s, p) == p = Len(s) \/ (p = Len(s) - 1 /\ s[Len(s)] = "\n")

\* One atom: a group, an anchor, "." (any character but a newline) or a
\* literal character.
ReAtom(s, pat, i, e, p) ==
  IF pat[i] = "(" THEN ReAlt(s, pat, i + 1, e - 1, p)
  ELSE IF pat[i] = "^" THEN (IF p = 0 THEN <<p>> ELSE <<>>)
  ELSE IF pat[i] = "$" THEN (IF AtEnd(s, p) THEN <<p>> ELSE <<>>)
  ELSE IF /\ p < Len(s)
          /\ \/ pat[i] = "." /\ s[p + 1] # "\n"
             \/ Lower(pat[i]) = Lower(s[p + 1])
       THEN <<p + 1>>
  ELSE <<>>

\* After one more match of the atom, begun at p and ended at an end in
\* ends: further repeats from an end that moved on from p; an end that did
\* not (the atom matched the empty string) closes the loop there.
ReStarFrom(s, pat, i, e, lazy, p, ends) ==
  IF ends = <<>> THEN <<>>
  ELSE (IF Head(ends) # p THEN ReStar(s, pat, i, e, lazy, Head(ends))
        ELSE <<Head(ends)>>)
         \o ReStarFrom(s, pat, i, e, lazy, p, Tail(ends))

\* Zero or more repeats of the atom: greedy tries more first, lazy fewer.
ReStar(s, pat, i, e, lazy, p) ==
  LET more == ReStarFrom(s, pat, i, e, lazy, p, ReAtom(s, pat, i, e, p))
  IN IF lazy THEN <<p>> \o more ELSE more \o <<p>>

\* An atom with its quantifier; "+" is one match of the atom, then "*" from
\* wherever it ended, an empty first match included; a possessive
\* quantifier keeps the first end.
ReItem(s, pat, i, e, p) ==
  IF QuantLen(pat, e) = 0 THEN ReAtom(s, pat, i, e, p)
  ELSE LET q == pat[e + 1]
           lazy == QuantLen(pat, e) = 2 /\ pat[e + 2] = "?"
           possessive == QuantLen(pat, e) = 2 /\ pat[e + 2] = "+"
           once == ReAtom(s, pat, i, e, p)
           ends == IF q = "?" THEN (IF lazy THEN <<p>> \o once ELSE once \o <<p>>)
                   ELSE IF q = "*" THEN ReStar(s, pat, i, e, lazy, p)
                   ELSE ReStarFrom(s, pat, i, e, lazy, -1, once)
       IN IF possessive /\ ends # <<>> THEN <<Head(ends)>> ELSE ends

\* The rest of the sequence, pat[n..j], from each end in ends.
ReSeqFrom(s, pat, n, j, ends) ==
  IF ends = <<>> THEN <<>>
  ELSE ReSeq(s, pat, n, j, Head(ends)) \o ReSeqFrom(s, pat, n, j, Tail(ends))

\* A sequence of items.
ReSeq(s, pat, i, j, p) ==
  IF i > j THEN <<p>>
  ELSE LET e == IF pat[i] = "(" THEN MatchingParen(pat, i) ELSE i
       IN ReSeqFrom(s, pat, e + 1 + QuantLen(pat, e), j, ReItem(s, pat, i, e, p))

\* re.search: a match may begin at any position.
ReSearch(s, pat) ==
  \E p \in 0..Len(s) : ReAlt(s, pat, 1, Len(pat), p) # <<>>

\* Series.str.contains(pat, case=False, na=False) with its default regex=True:
\* the pattern is compiled first, which may raise; then a null cell gives
\* False and any other cell re.search(pat, cell, re.IGNORECASE).  A pattern
\* outside the syntax modelled gets no result.
StrContains(x, pat) ==
  IF ~RegexModelled(pat) THEN "not modelled"
  ELSE IF RegexError(pat) THEN "re.error"
  ELSE IF IsNull(x) THEN FALSE
  ELSE ReSearch(Val(x), pat)

\* ----------------------------------------------------- the People table
available_columns ==
  <<"fullName", "username", "email", "total_sessions", "country", "businessUser">>

PersonRow(bu, ts, c, fn, un, em) ==
  [businessUser |-> bu, total_sessions |-> ts, country |-> c,
   fullName |-> fn, username |-> un, email |-> em]

\* Row values the warehouse's people_aggregated table is drawn from.
PeopleRows ==
  { PersonRow(Some(TRUE), Some(1), Some(sUS), Some(sAb), Some(sb), None),
    PersonRow(Some(FALSE), Some(0), Some(sCA), None, Some(sadotb), Some(sb)),
    PersonRow(None, None, None, None, None, None),
    PersonRow(None, Some(1), None, Some(sb), Some(sb), Some(sAb)) }

\* The text inputs a user types into the search box.
SearchTerms == { <<>>, saB, sdot, sLparen, sbDollar }

UserTypes == {"All Users", "Business Users", "Non-Business Users"}

\* ---------------------------------------------------- the Sessions table
\* The columns of sessions_aggregated that the script reads by name.
session_columns ==
  <<"start_timestamp", "session_duration", "screen_count",
    "autocapture_count", "country", "created_event", "viewed_event",
    "joined_event", "completed_quiz", "visited_discover">>

SessionRow(ce, ve, je, cq, vd, c, ts, dur, screens, autos) ==
  [created_event |-> ce, viewed_event |-> ve, joined_event |-> je,
   completed_quiz |-> cq, visited_discover |-> vd, country |-> c,
   start_timestamp |-> ts, session_duration |-> dur,
   screen_count |-> screens, autocapture_count |-> autos]

\* Row values of sessions_aggregated; a timestamp counts hours since day 0,
\* a duration whole seconds.
SessionRows ==
  { SessionRow(Some(TRUE), Some(TRUE), Some(TRUE), Some(TRUE), Some(TRUE),
               Some(sUS), Some(5), Some(10), Some(3), Some(7)),
    SessionRow(Some(FALSE), Some(TRUE), None, Some(TRUE), Some(FALSE),
               Some(sCA), Some(30), Some(0), None, Some(12)),
    SessionRow(None, None, None, None, None, None, None, None, None, None) }

\* ------------------------------------------------------ query results
\* to_dataframe(): the rows in result order under a RangeIndex 0..n-1.
ToDataFrame(rows) ==
  [i \in 1..Len(rows) |-> [c \in DOMAIN rows[i] \cup {"idx"} |->
                              IF c = "idx" THEN i - 1 ELSE rows[i][c]]]

\* The sequences of at most n elements of S.
RECURSIVE SeqsUpTo(_, _)
SeqsUpTo(S, n) ==
  IF n = 0 THEN { <<>> }
  ELSE LET shorter == SeqsUpTo(S, n - 1)
       IN shorter \cup { Append(q, x) : q \in { r \in shorter : Len(r) = n - 1 }, x \in S }

PeopleTables == { ToDataFrame(q) : q \in SeqsUpTo(PeopleRows, MaxRows) }
SessionTables == { ToDataFrame(q) : q \in SeqsUpTo(SessionRows, MaxRows) }

\* ------------------------------------------------- the People filter pass
\* app.py 97-100: the user-type selectbox.
UserTypeFilter(t, ut) ==
  IF ut = "Business Users"
  THEN BoolIndex(t, [i \in 1..Len(t) |-> EqTrue(t[i].businessUser)])
  ELSE IF ut = "Non-Business Users"
       THEN BoolIndex(t, [i \in 1..Len(t) |-> EqFalse(t[i].businessUser)])
       ELSE t

\* app.py 102: applied on every run, whatever the slider shows.
MinSessionsFilter(t, ms) ==
  BoolIndex(t, [i \in 1..Len(t) |-> GeScalar(t[i].total_sessions, ms)])

\* app.py 104-105 and 210-211: the country selectboxes.
CountryFilter(t, c) ==
  IF c # sAll
  THEN BoolIndex(t, [i \in 1..Len(t) |-> EqValue(t[i].country, c)])
  ELSE t

\* app.py 108-112: the OR of the three str.contains masks.
SearchMask(t, term) ==
  [i \in 1..Len(t) |-> \/ StrContains(t[i].fullName, term)
                        \/ StrContains(t[i].username, term)
                        \/ StrContains(t[i].email, term)]

\* A faulty variant of SearchFilter: a search without hits leaves the frame as it was.
SearchFilterFallback(t, term) ==
  IF Truthy(term) /\ (\E i \in 1..Len(t) : SearchMask(t, term)[i])
  THEN BoolIndex(t, SearchMask(t, term))
  ELSE t

\* app.py 107-113: `if search_term:` skips the empty string.
SearchFilter(t, term) ==
  IF Truthy(term) THEN BoolIndex(t, SearchMask(t, term)) ELSE t

\* app.py 95-113: the four statements in the order the script runs them.
FilterPeople(t, ut, ms, c, term) ==
  SearchFilter(CountryFilter(MinSessionsFilter(UserTypeFilter(t, ut), ms), c), term)

\* Series.max(): the largest non-null cell, NaN (null) when there is none.
SeriesMax(t, col) ==
  LET vals == { Val(t[i][col]) : i \in { j \in 1..Len(t) : ~IsNull(t[j][col]) } }
  IN IF vals = {} THEN None
     ELSE Some(CHOOSE m \in vals : \A v \in vals : v <= m)

\* Series.min(), likewise.
SeriesMin(t, col) ==
  LET vals == { Val(t[i][col]) : i \in { j \in 1..Len(t) : ~IsNull(t[j][col]) } }
  IN IF vals = {} THEN None
     ELSE Some(CHOOSE m \in vals : \A v \in vals : m <= v)

\* app.py 88 and 182: "All" and the distinct non-null countries; the sort
\* orders the options shown, it does not change which can be chosen.
CountryOptions(t) ==
  {sAll} \cup { Val(t[i].country) : i \in { j \in 1..Len(t) : ~IsNull(t[j].country) } }

\* ----------------------------------------------- the Sessions filter pass
\* app.py 200-209: one statement per ticked checkbox.
FlagFilter(t, show, col) ==
  IF show THEN BoolIndex(t, [i \in 1..Len(t) |-> EqTrue(t[i][col])]) ELSE t

EventFilters(t, sc, sv, sj, sq, sd) ==
  FlagFilter(FlagFilter(FlagFilter(FlagFilter(FlagFilter(t,
    sc, "created_event"), sv, "viewed_event"), sj, "joined_event"),
    sq, "completed_quiz"), sd, "visited_discover")

\* pd.to_datetime(ts).dt.date: the calendar day of an hour count.
DateOf(ts) == ts \div 24

\* A faulty variant of DateMask: the upper bound exclusive.
DateMaskExclusiveEnd(t, start_date, end_date) ==
  [i \in 1..Len(t) |-> /\ ~IsNull(t[i].start_timestamp)
                        /\ DateOf(Val(t[i].start_timestamp)) >= start_date
                        /\ DateOf(Val(t[i].start_timestamp)) < end_date]

\* app.py 215-218: both comparisons are False on a NaT cell.
DateMask(t, start_date, end_date) ==
  [i \in 1..Len(t) |-> /\ ~IsNull(t[i].start_timestamp)
                        /\ DateOf(Val(t[i].start_timestamp)) >= start_date
                        /\ DateOf(Val(t[i].start_timestamp)) <= end_date]

\* app.py 213-219: dr is None when the date widget was not rendered
\* ('date_range' not in locals()), else the tuple st.date_input returned.
DateRangeFilter(t, dr) ==
  IF ~IsNull(dr) /\ Len(Val(dr)) = 2
  THEN BoolIndex(t, DateMask(t, Val(dr)[1], Val(dr)[2]))
  ELSE t

\* app.py 198-219.
FilterSessions(t, sc, sv, sj, sq, sd, c, dr) ==
  DateRangeFilter(CountryFilter(EventFilters(t, sc, sv, sj, sq, sd), c), dr)

\* app.py 186-195: the widget exists only if some timestamp is non-null; it
\* returns a tuple of zero, one or two days between min_date and max_date.
DateRangeOptions(t) ==
  IF \E i \in 1..Len(t) : ~IsNull(t[i].start_timestamp)
  THEN LET min_date == DateOf(Val(SeriesMin(t, "start_timestamp")))
           max_date == DateOf(Val(SeriesMax(t, "start_timestamp")))
       IN { Some(q) : q \in SeqsUpTo(min_date..max_date, 2) }
  ELSE { None }

\* ------------------------------------------------ projection and export
\* app.py 122-124 and 226-229: the listed defaults that the schema has.
default_columns ==
  <<"fullName", "username", "email", "total_sessions", "country", "businessUser">>

default_session_columns ==
  <<"start_timestamp", "session_duration", "screen_count",
    "autocapture_count", "country", "created_event", "viewed_event",
    "joined_event", "completed_quiz">>

\* st.multiselect returns the chosen options, without repetition, in the
\* order chosen: none, the defaults, every column, and sublists and
\* reorderings of them.
ColumnSelections(cols, defaults) ==
  { <<>>, defaults, cols, <<cols[1]>>, <<cols[2], cols[1]>>,
    <<cols[Len(cols)], cols[1], cols[Len(cols) - 1]>> }

\* df[columns]: the named columns in the order named, every row kept under
\* its index label.
Project(t, cols) ==
  [columns |-> cols,
   rows |-> [i \in 1..Len(t) |->
               [idx |-> t[i].idx,
                cells |-> [j \in 1..Len(cols) |-> t[i][cols[j]]]]]]

BoolColumns ==
  {"businessUser", "created_event", "viewed_event", "joined_event",
   "completed_quiz", "visited_discover"}

IntColumns ==
  {"total_sessions", "session_duration", "screen_count", "autocapture_count"}

DigitChars == <<"0", "1", "2", "3", "4", "5", "6", "7", "8", "9">>

\* str(n) of a natural number.
RECURSIVE IntToStr(_)
IntToStr(n) ==
  IF n < 10 THEN <<DigitChars[n + 1]>>
  ELSE IntToStr(n \div 10) \o <<DigitChars[(n % 10) + 1]>>

\* to_csv writes a null as the empty field, a boolean as True or False, a
\* count in decimal, a timestamp as its day and hour, a string as it is
\* (no string of the model needs quoting).
CsvField(col, x) ==
  IF IsNull(x) THEN <<>>
  ELSE IF col \in BoolColumns
       THEN (IF Val(x) THEN <<"T", "r", "u", "e">> ELSE <<"F", "a", "l", "s", "e">>)
  ELSE IF col \in IntColumns THEN IntToStr(Val(x))
  ELSE IF col = "start_timestamp"
       THEN IntToStr(Val(x) \div 24) \o <<" ">> \o IntToStr(Val(x) % 24)
  ELSE Val(x)

\* A faulty variant of ToCsv: to_csv() without index=False writes the index column.
ToCsvWithIndex(view) ==
  <<(<<"">> \o view.columns)>> \o
  [i \in 1..Len(view.rows) |->
     <<IntToStr(view.rows[i].idx)>> \o
     [j \in 1..Len(view.columns) |->
        CsvField(view.columns[j], view.rows[i].cells[j])]]

\* view.to_csv(index=False): the header line, then one line per row, the
\* index column left out.
ToCsv(view) ==
  <<view.columns>> \o
  [i \in 1..Len(view.rows) |->
     [j \in 1..Len(view.columns) |->
        CsvField(view.columns[j], view.rows[i].cells[j])]]

\* ---------------------------------------------------------------- state
\* st.cache_data(ttl=3600), in seconds.
TTL == 3600

\* Time is advanced a ttl at a time: an entry is new or has expired.
TickSeconds == TTL

VARIABLES
  project_id,                \* os.getenv('GOOGLE_CLOUD_PROJECT_ID')
  other_sessions,            \* other browser sessions use the same server
  warehouse,                 \* the two BigQuery tables' rows
  next_refresh,              \* the rows the tables hold after their next refresh
  cache,                     \* st.cache_data's entry for load_data()
  cache_object_live,         \* no clear since this run's load_data looked up
  held_entry,                \* the entry of the cache object this call looked
                             \* up, once a clear has dropped that object
  other,                     \* another session's load_data call running the
                             \* body for the cache object in use
  other_dropped,             \* another session's call running the body for the
                             \* dropped cache object this call looked up
  since_clear,               \* history: what the warehouse has held since the
                             \* latest clear, or since the server started
  call_since_clear,          \* history: the same, since the latest clear before
                             \* this run's load_data call looked up
  pc,                        \* where the script run is
  queries,                   \* bq.query calls made by this run's load_data
  page,                      \* the elements this run has put on the page
  stale_button,              \* the previous run's "Clear cache" button is
                             \* still on the page
  clear_clicked,             \* this run was started by the "Clear cache" button
  people_df, sessions_df,
  user_type, min_sessions, selected_country, search_term,
  filtered_people, selected_columns,
  show_created, show_viewed, show_joined, show_quiz, show_discovered,
  selected_session_country, date_range,
  filtered_sessions, selected_session_columns,
  shown,                     \* the frame handed to st.dataframe
  csv                        \* the data handed to st.download_button

envVars == <<project_id, other_sessions, warehouse, next_refresh>>
cacheVars ==
  <<cache, cache_object_live, held_entry, other, other_dropped,
    since_clear, call_since_clear>>
callVars == <<queries, clear_clicked>>
loadVars == <<people_df, sessions_df>>
peopleVars ==
  <<user_type, min_sessions, selected_country, search_term,
    filtered_people, selected_columns>>
sessionVars ==
  <<show_created, show_viewed, show_joined, show_quiz, show_discovered,
    selected_session_country, date_range,
    filtered_sessions, selected_session_columns>>
outVars == <<shown, csv>>
vars ==
  <<envVars, cacheVars, pc, page, stale_button, callVars,
    loadVars, peopleVars, sessionVars, outVars>>

\* A script run starts with no locals: a widget variable holds its widget's
\* default, a frame variable nothing.
PeopleLocalsUnset ==
  /\ user_type' = "All Users"
  /\ min_sessions' = 0
  /\ selected_country' = sAll
  /\ search_term' = <<>>
  /\ filtered_people' = <<>>
  /\ selected_columns' = <<>>

SessionLocalsUnset ==
  /\ show_created' = FALSE
  /\ show_viewed' = FALSE
  /\ show_joined' = FALSE
  /\ show_quiz' = FALSE
  /\ show_discovered' = FALSE
  /\ selected_session_country' = sAll
  /\ date_range' = None
  /\ filtered_sessions' = <<>>
  /\ selected_session_columns' = <<>>

OutputsUnset ==
  /\ shown' = None
  /\ csv' = None

\* What is recorded about the load_data call is kept until the People tab
\* has run.
CallRecordDropped ==
  /\ queries' = 0
  /\ clear_clicked' = FALSE

\* No load_data call of another session is running the body.
NoOther == [stage |-> "none", people |-> <<>>]

\* The warehouse holds a varied people table beside an empty sessions table,
\* or a one-row people table beside a varied sessions table.
OnePersonTable ==
  ToDataFrame(<<PersonRow(Some(TRUE), Some(0), Some(sUS), Some(sAb), Some(sb), None)>>)

Warehouses ==
  { [people |-> p, sessions |-> <<>>] : p \in PeopleTables }
  \cup { [people |-> OnePersonTable, sessions |-> q] : q \in SessionTables }

\* The warehouse of the server that several sessions use: its people table
\* is refreshed from the one row to another row and back.
SharedWarehouse == [people |-> OnePersonTable, sessions |-> <<>>]

RefreshedWarehouse ==
  [people |-> ToDataFrame(<<PersonRow(None, None, None, None, None, None)>>),
   sessions |-> <<>>]

\* The server is used by this session alone and its warehouse does not
\* change, or it is shared and the warehouse is refreshed; without a
\* project id nothing is loaded.
Init ==
  /\ \/ /\ project_id = Some(<<"p">>)
        /\ other_sessions = FALSE
        /\ warehouse \in Warehouses
        /\ next_refresh = warehouse
     \/ /\ project_id = Some(<<"p">>)
        /\ other_sessions = TRUE
        /\ warehouse = SharedWarehouse
        /\ next_refresh = RefreshedWarehouse
     \/ /\ project_id \in { None, Some(<<>>) }
        /\ other_sessions = FALSE
        /\ warehouse = [people |-> OnePersonTable, sessions |-> <<>>]
        /\ next_refresh = warehouse
  /\ cache = None
  /\ cache_object_live = TRUE
  /\ held_entry = None
  /\ other = NoOther
  /\ other_dropped = NoOther
  /\ since_clear = {warehouse}
  /\ call_since_clear = {warehouse}
  /\ pc = "load"
  /\ queries = 0
  /\ page = <<>>
  /\ stale_button = FALSE
  /\ clear_clicked = FALSE
  /\ people_df = <<>>
  /\ sessions_df = <<>>
  /\ user_type = "All Users"
  /\ min_sessions = 0
  /\ selected_country = sAll
  /\ search_term = <<>>
  /\ filtered_people = <<>>
  /\ selected_columns = <<>>
  /\ show_created = FALSE
  /\ show_viewed = FALSE
  /\ show_joined = FALSE
  /\ show_quiz = FALSE
  /\ show_discovered = FALSE
  /\ selected_session_country = sAll
  /\ date_range = None
  /\ filtered_sessions = <<>>
  /\ selected_session_columns = <<>>
  /\ shown = None
  /\ csv = None

\* ------------------------------------------------------------ load_data
\* st.cache_data(ttl=3600): an entry answers calls until it is ttl old.
CacheValid(c) == ~IsNull(c) /\ Val(c).age < TTL

\* utilities.py 25-28: `if not project_id` refuses None and "".
ProjectIdSet(pid) == ~IsNull(pid) /\ Truthy(Val(pid))

\* The entry st.cache_data stores when load_data returns the pair.
StoredEntry(p, s) == Some([people |-> p, sessions |-> s, age |-> 0])

\* load_data's body is running: between the lookup that missed and the
\* return or the exception.
Fetching == pc \in {"query_people", "query_sessions"}

\* The load_data call has looked up its cache object and not returned.
InCall == pc = "wait_lock" \/ Fetching

\* st.cache_data runs the body for one cache object in one thread at a
\* time: another session's call holds the lock of the object this call
\* looked up.
LockBusy ==
  IF cache_object_live THEN other.stage # "none" ELSE other_dropped.stage # "none"

\* What the cache object this call looked up holds.
HeldObjectEntry == IF cache_object_live THEN cache ELSE held_entry

\* app.py 40-42 on a cache hit: the stored pair is returned, the body of
\* load_data does not run.
LoadDataCached ==
  /\ pc = "load"
  /\ CacheValid(cache)
  /\ people_df' = Val(cache).people
  /\ sessions_df' = Val(cache).sessions
  /\ page' = Append(page, "success")
  /\ pc' = "people_tab"
  /\ UNCHANGED <<envVars, cacheVars, stale_button, callVars,
                 peopleVars, sessionVars, outVars>>

\* app.py 40 on a miss while another session's call runs the body for the
\* same cache object: this call blocks until that one is over.
LoadDataWaits ==
  /\ pc = "load"
  /\ ~CacheValid(cache)
  /\ LockBusy
  /\ pc' = "wait_lock"
  /\ UNCHANGED <<envVars, cacheVars, page, stale_button, callVars,
                 loadVars, peopleVars, sessionVars, outVars>>

\* app.py 40-42 after the wait: the call looks again in the cache object it
\* looked up, finds what the other call stored there, and returns it
\* without running the body, whether or not that object is still the one
\* in use.
LoadDataRecheckHit ==
  /\ pc = "wait_lock"
  /\ ~LockBusy
  /\ CacheValid(HeldObjectEntry)
  /\ people_df' = Val(HeldObjectEntry).people
  /\ sessions_df' = Val(HeldObjectEntry).sessions
  /\ cache_object_live' = TRUE
  /\ held_entry' = None
  /\ call_since_clear' = since_clear
  /\ page' = Append(page, "success")
  /\ pc' = "people_tab"
  /\ UNCHANGED <<envVars, cache, other, other_dropped, since_clear,
                 stale_button, callVars, peopleVars, sessionVars, outVars>>

\* app.py 20-23 on a miss, at once or after the wait: the body starts and
\* init_bigquery_client returns a client (utilities.py 25-38), which needs
\* the project id.
LoadDataMiss ==
  /\ pc \in {"load", "wait_lock"}
  /\ ~LockBusy
  /\ ~CacheValid(HeldObjectEntry)
  /\ ProjectIdSet(project_id)
  /\ held_entry' = None
  /\ pc' = "query_people"
  /\ UNCHANGED <<envVars, cache, cache_object_live, other, other_dropped,
                 since_clear, call_since_clear, page, stale_button, callVars,
                 loadVars, peopleVars, sessionVars, outVars>>

\* app.py 25-29: the first query returns; load_data's people_df holds it.
QueryPeople ==
  /\ pc = "query_people"
  /\ queries' = queries + 1
  /\ people_df' = warehouse.people
  /\ pc' = "query_sessions"
  /\ UNCHANGED <<envVars, cacheVars, page, stale_button, clear_clicked,
                 sessions_df, peopleVars, sessionVars, outVars>>

\* app.py 31-37 and 40-42: the second query returns, load_data returns the
\* pair and st.cache_data stores it in the cache object the call looked up;
\* if the cache was cleared meanwhile that object is no longer in use.
QuerySessions ==
  /\ pc = "query_sessions"
  /\ queries' = queries + 1
  /\ sessions_df' = warehouse.sessions
  /\ cache' = IF cache_object_live
              THEN StoredEntry(people_df, warehouse.sessions)
              ELSE cache
  /\ cache_object_live' = TRUE
  /\ call_since_clear' = since_clear
  /\ page' = Append(page, "success")
  /\ pc' = "people_tab"
  /\ UNCHANGED <<envVars, held_entry, other, other_dropped, since_clear,
                 stale_button, clear_clicked, people_df,
                 peopleVars, sessionVars, outVars>>

\* A faulty variant of LoadDataFail: the error is shown but st.stop() is missing.
LoadDataFailGoesOn ==
  /\ \/ /\ pc \in {"load", "wait_lock"}
        /\ ~LockBusy
        /\ ~CacheValid(HeldObjectEntry)
        /\ queries' = queries
     \/ /\ Fetching
        /\ queries' = queries + 1
  /\ people_df' = <<>>
  /\ cache_object_live' = TRUE
  /\ held_entry' = None
  /\ call_since_clear' = since_clear
  /\ page' = Append(page, "error")
  /\ stale_button' = FALSE
  /\ pc' = "people_tab"
  /\ UNCHANGED <<envVars, cache, other, other_dropped, since_clear,
                 clear_clicked, sessions_df, peopleVars, sessionVars, outVars>>

\* app.py 43-45: load_data raised; nothing is stored, st.error shows the
\* message and st.stop ends the run, which takes the previous run's
\* elements off the page.  init_bigquery_client raises before any query
\* (utilities.py 27-28 when the project id is unset, and the client's
\* constructor at 38 may raise when it is set); either query may raise.
LoadDataFail ==
  /\ \/ /\ pc \in {"load", "wait_lock"}
        /\ ~LockBusy
        /\ ~CacheValid(HeldObjectEntry)
        /\ queries' = queries
     \/ /\ Fetching
        /\ queries' = queries + 1
  /\ people_df' = <<>>
  /\ cache_object_live' = TRUE
  /\ held_entry' = None
  /\ call_since_clear' = since_clear
  /\ page' = Append(page, "error")
  /\ stale_button' = FALSE
  /\ pc' = "stopped"
  /\ UNCHANGED <<envVars, cache, other, other_dropped, since_clear,
                 clear_clicked, sessions_df, peopleVars, sessionVars, outVars>>

\* --------------------------------------------------------- the People tab
\* app.py 107-111: a non-empty search term that is no regular expression
\* makes str.contains raise.
SearchRaises(term) == Truthy(term) /\ RegexError(term)

\* app.py 52-115 when the slider can be built and the search term compiles:
\* the metrics, the four widgets, the filter pass and the "Showing N of M"
\* line.
PeopleTab ==
  /\ pc = "people_tab"
  /\ ~IsNull(SeriesMax(people_df, "total_sessions"))
  /\ \E ut \in UserTypes,
        ms \in 0..Val(SeriesMax(people_df, "total_sessions")),
        c \in CountryOptions(people_df),
        term \in { t \in SearchTerms : ~SearchRaises(t) } :
       /\ user_type' = ut
       /\ min_sessions' = ms
       /\ selected_country' = c
       /\ search_term' = term
       /\ filtered_people' = FilterPeople(people_df, ut, ms, c, term)
  /\ page' = page \o <<"people_metrics", "people_info">>
  /\ pc' = "people_columns"
  /\ CallRecordDropped
  /\ UNCHANGED <<envVars, cacheVars, stale_button, loadVars,
                 selected_columns, sessionVars, outVars>>

\* app.py 79-84 when no total_sessions cell is non-null (an empty table
\* too): max() is NaN and int(NaN) raises, outside any try; the run ends
\* with the exception on the page.
PeopleTabRaises ==
  /\ pc = "people_tab"
  /\ IsNull(SeriesMax(people_df, "total_sessions"))
  /\ page' = page \o <<"people_metrics", "exception">>
  /\ stale_button' = FALSE
  /\ pc' = "crashed"
  /\ CallRecordDropped
  /\ UNCHANGED <<envVars, cacheVars, loadVars,
                 peopleVars, sessionVars, outVars>>

\* app.py 95-111 when the search term does not compile: re.error leaves
\* the filter pass, outside any try; the run ends with the exception on the
\* page and without a filtered table.
PeopleSearchRaises ==
  /\ pc = "people_tab"
  /\ ~IsNull(SeriesMax(people_df, "total_sessions"))
  /\ \E term \in SearchTerms : SearchRaises(term)
  /\ page' = page \o <<"people_metrics", "exception">>
  /\ stale_button' = FALSE
  /\ pc' = "crashed"
  /\ CallRecordDropped
  /\ UNCHANGED <<envVars, cacheVars, loadVars,
                 peopleVars, sessionVars, outVars>>

\* app.py 117-148: the multiselect, then the table and its download button,
\* or the warning.  The four filter widgets' values are not read again.
PeopleColumnSelection ==
  /\ pc = "people_columns"
  /\ \E sel \in ColumnSelections(available_columns, default_columns) :
       /\ selected_columns' = sel
       /\ IF Truthy(sel)
          THEN /\ shown' = Some(Project(filtered_people, sel))
               /\ csv' = Some(ToCsv(Project(filtered_people, sel)))
               /\ page' = page \o <<"people_dataframe", "people_download">>
          ELSE /\ shown' = None
               /\ csv' = None
               /\ page' = Append(page, "people_warning")
  /\ user_type' = "All Users"
  /\ min_sessions' = 0
  /\ selected_country' = sAll
  /\ search_term' = <<>>
  /\ pc' = "sessions_tab"
  /\ UNCHANGED <<envVars, cacheVars, stale_button, callVars, loadVars,
                 filtered_people, sessionVars>>

\* ------------------------------------------------------- the Sessions tab
\* app.py 152-221: the metrics over session_duration, screen_count and
\* autocapture_count, the widgets, the filter pass and the "Showing N of M"
\* line.  The People tab's locals are not read again.
SessionsTab ==
  /\ pc = "sessions_tab"
  /\ \E sc \in BOOLEAN, sv \in BOOLEAN, sj \in BOOLEAN, sq \in BOOLEAN,
        sd \in BOOLEAN,
        c \in CountryOptions(sessions_df),
        dr \in DateRangeOptions(sessions_df) :
       /\ show_created' = sc
       /\ show_viewed' = sv
       /\ show_joined' = sj
       /\ show_quiz' = sq
       /\ show_discovered' = sd
       /\ selected_session_country' = c
       /\ date_range' = dr
       /\ filtered_sessions' = FilterSessions(sessions_df, sc, sv, sj, sq, sd, c, dr)
  /\ PeopleLocalsUnset
  /\ OutputsUnset
  /\ page' = page \o <<"sessions_metrics", "sessions_info">>
  /\ pc' = "session_columns"
  /\ UNCHANGED <<envVars, cacheVars, stale_button, callVars, loadVars,
                 selected_session_columns>>

\* app.py 223-255.  The filter widgets' values are not read again.
SessionColumnSelection ==
  /\ pc = "session_columns"
  /\ \E sel \in ColumnSelections(session_columns, default_session_columns) :
       /\ selected_session_columns' = sel
       /\ IF Truthy(sel)
          THEN /\ shown' = Some(Project(filtered_sessions, sel))
               /\ csv' = Some(ToCsv(Project(filtered_sessions, sel)))
               /\ page' = page \o <<"sessions_dataframe", "sessions_download">>
          ELSE /\ shown' = None
               /\ csv' = None
               /\ page' = Append(page, "sessions_warning")
  /\ show_created' = FALSE
  /\ show_viewed' = FALSE
  /\ show_joined' = FALSE
  /\ show_quiz' = FALSE
  /\ show_discovered' = FALSE
  /\ selected_session_country' = sAll
  /\ date_range' = None
  /\ pc' = "footer"
  /\ UNCHANGED <<envVars, cacheVars, stale_button, callVars, loadVars,
                 peopleVars, filtered_sessions>>

\* ------------------------------------------------------------ the footer
\* app.py 328-330: the run ends with the "Clear cache" button on the page.
\* The Sessions tab's locals are not read again.
Footer ==
  /\ pc = "footer"
  /\ page' = Append(page, "clear_cache_button")
  /\ SessionLocalsUnset
  /\ OutputsUnset
  /\ stale_button' = FALSE
  /\ pc' = "idle"
  /\ UNCHANGED <<envVars, cacheVars, callVars, loadVars,
                 peopleVars>>

\* A new script run starts from the top with no locals and an empty page;
\* the previous run's button stays on the page until this run replaces it
\* or ends.
StartRun ==
  /\ pc' = "load"
  /\ queries' = 0
  /\ page' = <<>>
  /\ stale_button' = (pc = "idle" \/ stale_button)
  /\ people_df' = <<>>
  /\ sessions_df' = <<>>
  /\ cache_object_live' = TRUE
  /\ held_entry' = None
  /\ other_dropped' = NoOther
  /\ PeopleLocalsUnset
  /\ SessionLocalsUnset
  /\ OutputsUnset

\* A widget is changed, or the page reloaded: Streamlit reruns the script.
\* A run in progress is abandoned where it is; a load_data call it was in
\* stores nothing, and a call for a dropped cache object that it was
\* waiting for is followed no further.
Rerun ==
  /\ pc # "load"
  /\ StartRun
  /\ clear_clicked' = FALSE
  /\ call_since_clear' = since_clear
  /\ UNCHANGED <<envVars, cache, other, since_clear>>

\* st.cache_data.clear(): every entry is dropped.
CacheClear(c) == None

\* A faulty variant of ObjectAfterClear: the clear empties the cache object
\* and leaves it in use, so a call in progress stores into the cache in use.
ObjectKeptAfterClear(live) == live

\* st.cache_data.clear() also drops the cache objects themselves: the next
\* lookup makes a new one, and a call in progress keeps the dropped one.
ObjectAfterClear(live) == FALSE

\* app.py 330: the button is on the page after a complete run and until
\* the next run replaces it or ends; its on_click callback runs first, then
\* the script reruns, abandoning a run in progress.
ClickClearCache ==
  /\ pc = "idle" \/ stale_button
  /\ cache' = CacheClear(cache)
  /\ other' = IF ObjectAfterClear(TRUE) THEN other ELSE NoOther
  /\ since_clear' = {warehouse}
  /\ call_since_clear' = {warehouse}
  /\ StartRun
  /\ clear_clicked' = TRUE
  /\ UNCHANGED envVars

\* An entry one tick older.
Aged(c) ==
  IF CacheValid(c) THEN Some([Val(c) EXCEPT !.age = @ + TickSeconds]) ELSE c

\* Time passes; an entry's age stops mattering at the ttl.
Tick ==
  /\ CacheValid(cache) \/ CacheValid(held_entry)
  /\ cache' = Aged(cache)
  /\ held_entry' = Aged(held_entry)
  /\ UNCHANGED <<envVars, cache_object_live, other, other_dropped,
                 since_clear, call_since_clear, pc, page, stale_button,
                 callVars, loadVars, peopleVars, sessionVars, outVars>>

\* app.py 26-28 and 32-34 read the tables as they are when the query runs:
\* the warehouse's tables are refreshed between queries.
WarehouseRefresh ==
  /\ next_refresh # warehouse
  /\ warehouse' = next_refresh
  /\ next_refresh' = warehouse
  /\ since_clear' = since_clear \cup {next_refresh}
  /\ call_since_clear' = call_since_clear \cup {next_refresh}
  /\ UNCHANGED <<project_id, other_sessions, cache, cache_object_live,
                 held_entry, other, other_dropped, pc, page, stale_button,
                 callVars,
                 loadVars, peopleVars, sessionVars, outVars>>

\* ------------------------------------------------------- other sessions
\* The cache is shared by every session of the server (app.py 20); nothing
\* orders another session's thread and this one's.  st.cache_data runs the
\* body for one cache object in one thread at a time, so one call of
\* another session runs the body for the cache object in use; a call that
\* runs it for a dropped object is followed while this session's call
\* waits for it, since nothing else reads what it stores.
\* app.py 330 in another session: the cache is cleared.  A load_data call
\* in progress, here or in a third session, keeps the cache object it
\* looked up, which is now dropped together with what it held; the next
\* lookup makes a new object, whose lock is free.
OtherSessionClears ==
  /\ other_sessions
  /\ cache' = CacheClear(cache)
  /\ cache_object_live' =
       IF InCall THEN ObjectAfterClear(cache_object_live) ELSE cache_object_live
  /\ held_entry' =
       IF pc = "wait_lock" /\ cache_object_live /\ ~ObjectAfterClear(cache_object_live)
       THEN (IF CacheValid(cache) THEN cache ELSE None)
       ELSE held_entry
  /\ other' = IF ObjectAfterClear(TRUE) THEN other ELSE NoOther
  /\ other_dropped' =
       IF pc = "wait_lock" /\ cache_object_live /\ ~ObjectAfterClear(cache_object_live)
       THEN other
       ELSE other_dropped
  /\ since_clear' = {warehouse}
  /\ call_since_clear' = IF InCall THEN call_since_clear ELSE {warehouse}
  /\ UNCHANGED <<envVars, pc, page, stale_button, callVars,
                 loadVars, peopleVars, sessionVars, outVars>>

\* app.py 20-23 and 40 in another session: its lookup in the cache object
\* in use misses and the body starts, which needs that object's lock;
\* this session's call, or another session's, holds it while it runs the
\* body for that object.
OtherSessionMisses ==
  /\ other_sessions
  /\ other.stage = "none"
  /\ ~(Fetching /\ cache_object_live)
  /\ ~CacheValid(cache)
  /\ ProjectIdSet(project_id)
  /\ other' = [stage |-> "query_people", people |-> <<>>]
  /\ UNCHANGED <<envVars, cache, cache_object_live, held_entry, other_dropped,
                 since_clear, call_since_clear, pc, page, stale_button,
                 callVars, loadVars, peopleVars, sessionVars, outVars>>

\* app.py 25-29 in another session: its first query returns.
OtherSessionQueryPeople ==
  /\ \/ /\ other.stage = "query_people"
        /\ other' = [stage |-> "query_sessions", people |-> warehouse.people]
        /\ UNCHANGED other_dropped
     \/ /\ other_dropped.stage = "query_people"
        /\ other_dropped' = [stage |-> "query_sessions", people |-> warehouse.people]
        /\ UNCHANGED other
  /\ UNCHANGED <<envVars, cache, cache_object_live, held_entry, since_clear,
                 call_since_clear, pc, page, stale_button, callVars,
                 loadVars, peopleVars, sessionVars, outVars>>

\* app.py 31-37 and 40-42 in another session: its second query returns and
\* the pair is stored in the cache object that call looked up: the one in
\* use, or the dropped one that this session's call looked up too.
OtherSessionQuerySessions ==
  /\ \/ /\ other.stage = "query_sessions"
        /\ cache' = StoredEntry(other.people, warehouse.sessions)
        /\ other' = NoOther
        /\ UNCHANGED <<held_entry, other_dropped>>
     \/ /\ other_dropped.stage = "query_sessions"
        /\ held_entry' = StoredEntry(other_dropped.people, warehouse.sessions)
        /\ other_dropped' = NoOther
        /\ UNCHANGED <<cache, other>>
  /\ UNCHANGED <<envVars, cache_object_live, since_clear,
                 call_since_clear, pc, page, stale_button, callVars,
                 loadVars, peopleVars, sessionVars, outVars>>

\* app.py 43-45 in another session, or its run is abandoned: its call ends
\* and stores nothing.
OtherSessionFails ==
  /\ \/ /\ other.stage # "none"
        /\ other' = NoOther
        /\ UNCHANGED other_dropped
     \/ /\ other_dropped.stage # "none"
        /\ other_dropped' = NoOther
        /\ UNCHANGED other
  /\ UNCHANGED <<envVars, cache, cache_object_live, held_entry, since_clear,
                 call_since_clear, pc, page, stale_button, callVars,
                 loadVars, peopleVars, sessionVars, outVars>>

Next ==
  \/ LoadDataCached
  \/ LoadDataWaits
  \/ LoadDataRecheckHit
  \/ LoadDataMiss
  \/ QueryPeople
  \/ QuerySessions
  \/ LoadDataFail
  \/ PeopleTab
  \/ PeopleTabRaises
  \/ PeopleSearchRaises
  \/ PeopleColumnSelection
  \/ SessionsTab
  \/ SessionColumnSelection
  \/ Footer
  \/ Rerun
  \/ ClickClearCache
  \/ Tick
  \/ WarehouseRefresh
  \/ OtherSessionClears
  \/ OtherSessionMisses
  \/ OtherSessionQueryPeople
  \/ OtherSessionQuerySessions
  \/ OtherSessionFails

Spec == Init /\ [][Next]_vars

\* ------------------------------------------------------------ the claims
Rows(t) == { t[i] : i \in 1..Len(t) }
Elements(q) == { q[i] : i \in 1..Len(q) }

\* The predicates the People widgets make active, on one loaded row.
UserTypeHolds(r) ==
  /\ user_type = "Business Users" => r.businessUser = Some(TRUE)
  /\ user_type = "Non-Business Users" => r.businessUser = Some(FALSE)

MinSessionsHolds(r) ==
  ~IsNull(r.total_sessions) /\ Val(r.total_sessions) >= min_sessions

PeopleCountryHolds(r) ==
  selected_country # sAll => r.country = Some(selected_country)

\* str.contains as the claims state it: the case-folded term occurs in the
\* case-folded cell as a literal substring; a null cell never matches.
LiteralContains(x, term) ==
  /\ x # None
  /\ \E off \in 0..(Len(Val(x)) - Len(term)) :
       \A k \in 1..Len(term) : Lower(term[k]) = Lower(Val(x)[off + k])

SearchHolds(r) ==
  search_term # <<>> =>
    \/ LiteralContains(r.fullName, search_term)
    \/ LiteralContains(r.username, search_term)
    \/ LiteralContains(r.email, search_term)

PeoplePredicatesHold(r) ==
  UserTypeHolds(r) /\ MinSessionsHolds(r) /\ PeopleCountryHolds(r) /\ SearchHolds(r)

\* The predicates the Sessions widgets make active, on one loaded row.
EventFlagsHold(r) ==
  /\ show_created => r.created_event = Some(TRUE)
  /\ show_viewed => r.viewed_event = Some(TRUE)
  /\ show_joined => r.joined_event = Some(TRUE)
  /\ show_quiz => r.completed_quiz = Some(TRUE)
  /\ show_discovered => r.visited_discover = Some(TRUE)

SessionCountryHolds(r) ==
  selected_session_country # sAll => r.country = Some(selected_session_country)

DateRangeActive == date_range # None /\ Len(Val(date_range)) = 2

InDateRange(r) ==
  /\ r.start_timestamp # None
  /\ Val(date_range)[1] <= Val(r.start_timestamp) \div 24
  /\ Val(r.start_timestamp) \div 24 <= Val(date_range)[2]

DateRangeHolds(r) == DateRangeActive => InDateRange(r)

SessionPredicatesHold(r) ==
  EventFlagsHold(r) /\ SessionCountryHolds(r) /\ DateRangeHolds(r)

\* C1 as stated: after either filter pass the filtered table is exactly the
\* loaded table's rows on which every active predicate is true, each once (a
\* row is identified by its index label) and in the loaded order; the search
\* predicate is the literal, case-insensitive substring test.
C1_FilterKeepsExactlyPassingRows ==
  /\ pc = "people_columns" =>
       filtered_people = SelectSeq(people_df, PeoplePredicatesHold)
  /\ pc = "session_columns" =>
       filtered_sessions = SelectSeq(sessions_df, SessionPredicatesHold)

\* C2 as stated: with every widget at its inactive setting the filtered table
\* equals the loaded one, null total_sessions and null timestamps included.
C2_InactiveFiltersAreIdentity ==
  /\ ( /\ pc = "people_columns"
       /\ user_type = "All Users"
       /\ min_sessions = 0
       /\ selected_country = sAll
       /\ search_term = <<>> ) => filtered_people = people_df
  /\ ( /\ pc = "session_columns"
       /\ ~show_created /\ ~show_viewed /\ ~show_joined
       /\ ~show_quiz /\ ~show_discovered
       /\ selected_session_country = sAll
       /\ ~DateRangeActive ) => filtered_sessions = sessions_df

\* The orders in which n statements can run.
Orders(n) == { p \in [1..n -> 1..n] : \A i, j \in 1..n : p[i] = p[j] => i = j }

PeopleOrders == Orders(4)
SessionOrders == Orders(3)

\* The k-th statement of the People pass, on the frame so far.
PeopleStep(k, t) ==
  CASE k = 1 -> UserTypeFilter(t, user_type)
    [] k = 2 -> MinSessionsFilter(t, min_sessions)
    [] k = 3 -> CountryFilter(t, selected_country)
    [] k = 4 -> SearchFilter(t, search_term)

RECURSIVE ApplyPeopleSteps(_, _)
ApplyPeopleSteps(order, t) ==
  IF order = <<>> THEN t
  ELSE ApplyPeopleSteps(Tail(order), PeopleStep(Head(order), t))

\* The k-th group of statements of the Sessions pass, on the frame so far.
SessionStep(k, t) ==
  CASE k = 1 -> EventFilters(t, show_created, show_viewed, show_joined,
                             show_quiz, show_discovered)
    [] k = 2 -> CountryFilter(t, selected_session_country)
    [] k = 3 -> DateRangeFilter(t, date_range)

RECURSIVE ApplySessionSteps(_, _)
ApplySessionSteps(order, t) ==
  IF order = <<>> THEN t
  ELSE ApplySessionSteps(Tail(order), SessionStep(Head(order), t))

\* C3: running the statements of a filter pass in any other order on the
\* loaded table gives the set of rows the script's order gave.
C3_FilterOrderIndependent ==
  /\ pc = "people_columns" =>
       \A p \in PeopleOrders :
         Rows(ApplyPeopleSteps(p, people_df)) = Rows(filtered_people)
  /\ pc = "session_columns" =>
       \A p \in SessionOrders :
         Rows(ApplySessionSteps(p, sessions_df)) = Rows(filtered_sessions)

\* C3 witness: the user-type statement alone keeps one of two loaded rows,
\* the search statement alone keeps the other, and the pass keeps neither.
C3_Witness ==
  /\ pc = "people_columns"
  /\ user_type # "All Users"
  /\ search_term # <<>>
  /\ Len(people_df) = 2
  /\ Len(UserTypeFilter(people_df, user_type)) = 1
  /\ Len(SearchFilter(people_df, search_term)) = 1
  /\ UserTypeFilter(people_df, user_type) # SearchFilter(people_df, search_term)
  /\ filtered_people = <<>>

\* C4 as stated: under a non-empty term, a loaded row that passes the other
\* predicates is kept exactly if fullName, username or email contains the
\* term literally, case ignored; it is kept once; an empty term keeps all.
C4_SearchIsLiteralSubstring ==
  pc = "people_columns" =>
    /\ \A i \in 1..Len(people_df) :
         LET r == people_df[i]
         IN (UserTypeHolds(r) /\ MinSessionsHolds(r) /\ PeopleCountryHolds(r)) =>
              ( (\E j \in 1..Len(filtered_people) : filtered_people[j] = r)
                <=> ( search_term # <<>> =>
                        \/ LiteralContains(r.fullName, search_term)
                        \/ LiteralContains(r.username, search_term)
                        \/ LiteralContains(r.email, search_term) ) )
    /\ \A j, k \in 1..Len(filtered_people) :
         filtered_people[j] = filtered_people[k] => j = k

\* C5: with both bounds given, a row that passes the other predicates is
\* kept exactly if its timestamp is non-null and its day lies in
\* [start, end]; start > end keeps nothing and the run goes on; with fewer
\* than two bounds the date statement removes nothing.
C5_DateRangeInclusive ==
  pc = "session_columns" =>
    /\ \A i \in 1..Len(sessions_df) :
         LET r == sessions_df[i]
         IN (EventFlagsHold(r) /\ SessionCountryHolds(r)) =>
              ( (r \in Rows(filtered_sessions))
                <=> (DateRangeActive => InDateRange(r)) )
    /\ (DateRangeActive /\ Val(date_range)[1] > Val(date_range)[2]) =>
         filtered_sessions = <<>>

\* C5 witness: both bounds are the same day; the row of that day is kept
\* beside a loaded row with a null timestamp, which is dropped.
C5_Witness ==
  /\ pc = "session_columns"
  /\ DateRangeActive
  /\ Val(date_range)[1] = Val(date_range)[2]
  /\ Len(sessions_df) = 2
  /\ \E i \in 1..2 : sessions_df[i].start_timestamp = None
  /\ Len(filtered_sessions) = 1
  /\ Val(filtered_sessions[1].start_timestamp) \div 24 = Val(date_range)[1]

\* What the People pass keeps with the user-type selectbox on "All Users",
\* and the Sessions pass with every checkbox off: no flag constraint at all.
PeopleWithoutUserType ==
  FilterPeople(people_df, "All Users", min_sessions, selected_country, search_term)

SessionsWithoutFlags ==
  FilterSessions(sessions_df, FALSE, FALSE, FALSE, FALSE, FALSE,
                 selected_session_country, date_range)

BusinessUserIsTrueIfSelected(r) ==
  user_type # "All Users" => r.businessUser = Some(TRUE)

\* C6 as stated: a switched-on flag predicate, the user-type selection
\* included, keeps exactly the rows whose column is true, a switched-off one
\* constrains nothing, and nothing restricts to rows whose column is false.
C6_FlagsOnlyEverRequireTrue ==
  /\ pc = "people_columns" =>
       filtered_people = SelectSeq(PeopleWithoutUserType, BusinessUserIsTrueIfSelected)
  /\ pc = "session_columns" =>
       filtered_sessions = SelectSeq(SessionsWithoutFlags, EventFlagsHold)

\* C6 amended: each ticked event checkbox requires its column to be true and
\* an unticked one constrains nothing; "Business Users" requires businessUser
\* to be true, "Non-Business Users" requires it to be false, "All Users"
\* constrains nothing; a null flag fails every active flag predicate.
C6_FlagsRequireTrueExceptNonBusiness ==
  /\ pc = "people_columns" =>
       /\ filtered_people = SelectSeq(PeopleWithoutUserType, UserTypeHolds)
       /\ user_type # "All Users" =>
            \A r \in Rows(filtered_people) : r.businessUser # None
  /\ pc = "session_columns" =>
       /\ filtered_sessions = SelectSeq(SessionsWithoutFlags, EventFlagsHold)
       /\ \A r \in Rows(filtered_sessions) :
            /\ show_created => r.created_event # None
            /\ show_viewed => r.viewed_event # None
            /\ show_joined => r.joined_event # None
            /\ show_quiz => r.completed_quiz # None
            /\ show_discovered => r.visited_discover # None

\* C6 witness: "Non-Business Users" is selected, a loaded row whose
\* businessUser is false is kept and one whose businessUser is null dropped.
C6_Witness ==
  /\ pc = "people_columns"
  /\ user_type = "Non-Business Users"
  /\ Len(filtered_people) = 1
  /\ filtered_people[1].businessUser = Some(FALSE)
  /\ \E r \in Rows(PeopleWithoutUserType) : r.businessUser = None

\* The frame st.dataframe got and the data st.download_button got are the
\* projection of table t on the selection sel.
IsProjectionOf(t, sel) ==
  /\ shown # None
  /\ csv # None
  /\ Val(shown).columns = sel
  /\ Len(Val(shown).rows) = Len(t)
  /\ Len(Val(csv)) = Len(t) + 1
  /\ Val(csv)[1] = sel
  /\ \A i \in 1..Len(t) :
       /\ Val(shown).rows[i].idx = t[i].idx
       /\ Len(Val(shown).rows[i].cells) = Len(sel)
       /\ Len(Val(csv)[i + 1]) = Len(sel)
       /\ \A j \in 1..Len(sel) :
            /\ Val(shown).rows[i].cells[j] = t[i][sel[j]]
            /\ Val(csv)[i + 1][j] = CsvField(sel[j], t[i][sel[j]])

\* C7: under a non-empty selection the table shown and the CSV exported hold
\* exactly the selected columns in the selected order and the filtered
\* table's rows in their order, and both are the same projection.
C7_ProjectionKeepsRowsAndOrder ==
  /\ (pc = "sessions_tab" /\ selected_columns # <<>>) =>
       IsProjectionOf(filtered_people, selected_columns)
  /\ (pc = "footer" /\ selected_session_columns # <<>>) =>
       IsProjectionOf(filtered_sessions, selected_session_columns)

\* C7 witness: two filtered People rows are shown and exported under a
\* selection that reorders the schema's columns.
C7_Witness ==
  /\ pc = "sessions_tab"
  /\ selected_columns = <<"username", "fullName">>
  /\ Len(filtered_people) = 2
  /\ Len(people_df) = 2
  /\ shown # None
  /\ Len(Val(csv)) = 3

\* C8: under an empty selection the tab shows its warning, no table and no
\* download button, the run goes on to the footer, and the zero-column
\* projection has as many rows as the filtered table.
C8_EmptySelectionWarns ==
  /\ (pc = "sessions_tab" /\ selected_columns = <<>>) =>
       /\ shown = None
       /\ csv = None
       /\ page[Len(page)] = "people_warning"
       /\ {"people_dataframe", "people_download"} \cap Elements(page) = {}
       /\ Project(filtered_people, selected_columns).columns = <<>>
       /\ Len(Project(filtered_people, selected_columns).rows) = Len(filtered_people)
  /\ (pc = "footer" /\ selected_session_columns = <<>>) =>
       /\ shown = None
       /\ csv = None
       /\ page[Len(page)] = "sessions_warning"
       /\ {"sessions_dataframe", "sessions_download"} \cap Elements(page) = {}
       /\ Project(filtered_sessions, selected_session_columns).columns = <<>>
       /\ Len(Project(filtered_sessions, selected_session_columns).rows)
            = Len(filtered_sessions)
  /\ "people_warning" \in Elements(page) =>
       pc \in {"sessions_tab", "session_columns", "footer", "idle"}
  /\ "sessions_warning" \in Elements(page) => pc \in {"footer", "idle"}
  /\ pc = "idle" => page[Len(page)] = "clear_cache_button"

\* C8 witness: a run that showed both warnings has completed, over a
\* warehouse whose people table has rows.
C8_Witness ==
  /\ pc = "idle"
  /\ "people_warning" \in Elements(page)
  /\ "sessions_warning" \in Elements(page)
  /\ Len(people_df) = 2

\* The tables of the pair were each read from the warehouse at some time
\* covered by the history h.
ReadSince(h, p, s) ==
  /\ \E w \in h : p = w.people
  /\ \E w \in h : s = w.sessions

C10_LoadFailureStopsRun ==
  /\ "error" \in Elements(page) =>
       /\ pc = "stopped"
       /\ page = <<"error">>
       /\ people_df = <<>> /\ sessions_df = <<>>
       /\ filtered_people = <<>> /\ filtered_sessions = <<>>
       /\ shown = None /\ csv = None
       /\ queries <= 2
  /\ pc = "stopped" => "error" \in Elements(page)

\* C10 witness: the second warehouse query raised after the first succeeded,
\* in a run started after an earlier complete one.
C10_Witness ==
  /\ pc = "stopped"
  /\ queries = 2
  /\ cache # None
  /\ page = <<"error">>

====
